---- MODULE Spec2Model ----
(***************************************************************************)
(* A model of the scene-graph / sensor / reward declarations of the        *)
(* simulate (formerly simenv) Python package:                              *)
(*                                                                         *)
(*   src/src/simenv/rl/reward_functions.py   RewardFunction                *)
(*   src/src/simulate/assets/sensors.py      StateSensor                   *)
(*   src/src/simenv/assets/asset.py          Asset                         *)
(*                                                                         *)
(* The three classes do not share state, so each one is a component with   *)
(* its own variables, its own actions and its own specification            *)
(* (SpecReward, SpecCopy, SpecSensor, SpecAsset, SpecTree).  Every         *)
(* specification starts from the common Init and leaves the variables of   *)
(* the other components untouched.                                         *)
(*                                                                         *)
(* Python values are modelled as follows.  None is the string "None" where *)
(* the field holds strings; object references into the list of             *)
(* RewardFunction objects are indexes, with 0 for None; a raised exception *)
(* is the name of its class, "none" when the call returned.                *)
(***************************************************************************)
EXTENDS Integers, Sequences, FiniteSets, TLC

VARIABLES
    rf,         \* the RewardFunction last constructed successfully
    rfCall,     \* the last call of the RewardFunction constructor and its outcome
    episode,    \* evaluation state of rf in the running episode
    heap,       \* RewardFunction objects alive in the copy scenario, by identity
    nCopies,    \* how many times the scene has been cloned
    copied,     \* the last call of _post_copy and the instance it returned
    sensor,     \* the StateSensor last constructed successfully
    sensorCall, \* the last call of the StateSensor constructor and its outcome
    obs,        \* the last read of sensor.observation_space
    attrs,      \* per Asset object: its dimensionality and stored transform
    parent,     \* per Asset object: its parent in the scene graph (0: none)
    children,   \* per Asset object: its children, in order
    assetCall   \* the last Asset call (constructor or setter) and its outcome

rewardVars == <<rf, rfCall, episode>>
copyVars == <<heap, nCopies, copied>>
sensorVars == <<sensor, sensorCall, obs>>
assetVars == <<attrs, parent, children, assetCall>>
vars ==
    <<rf, rfCall, episode, heap, nCopies, copied, sensor, sensorCall, obs,
      attrs, parent, children, assetCall>>

None == "None"

(***************************************************************************)
(* Bounds of the model.                                                    *)
(***************************************************************************)
MaxSteps == 2      \* evaluation steps followed within one episode
MaxDist == 2       \* distances between the two entities run over 0..MaxDist
MaxRewards == 2    \* RewardFunction objects constructed in the copy scenario
MaxCopies == 2     \* clones of the scene
MaxProps == 2      \* length of the property lists given to a StateSensor
MaxVal == 1        \* transform components run over 0..MaxVal
MaxLen == 4        \* length of the sequences given as transform components
MaxNodes == 3      \* Asset objects in the scene graph
MaxKids == 2       \* length of the children list given to the Asset constructor

(***************************************************************************)
(* Scene nodes.  A node is identified by its name and by the generation of *)
(* the copy it belongs to (0: the original scene).                         *)
(***************************************************************************)
NodeNames == {"a", "b"}
Node(n, k) == [name |-> n, copy |-> k]
NoNode == [name |-> None, copy |-> 0]
Originals == {Node(n, 0) : n \in NodeNames}

(***************************************************************************)
(* RewardFunction: module constants and dataclass fields.                  *)
(***************************************************************************)
ALLOWED_REWARD_TYPES == {"dense", "sparse", "or", "and", "not", "see", "timeout"}

ALLOWED_REWARD_DISTANCE_METRICS == {"euclidean"}

\* Faulty variant of RewardDefaults: trigger_once off by default, as the class
\* docstring has it.
RewardDefaultsTriggerOff ==
    [type |-> None, distance_metric |-> None, scalar |-> 1, threshold |-> 1,
     is_terminal |-> FALSE, is_collectable |-> FALSE, trigger_once |-> FALSE,
     reward_function_a |-> 0, reward_function_b |-> 0]

\* The defaults of the optional dataclass fields.
RewardDefaults ==
    [type |-> None, distance_metric |-> None, scalar |-> 1, threshold |-> 1,
     is_terminal |-> FALSE, is_collectable |-> FALSE, trigger_once |-> TRUE,
     reward_function_a |-> 0, reward_function_b |-> 0]

OptionalFields ==
    {"type", "distance_metric", "scalar", "threshold", "is_terminal",
     "is_collectable", "trigger_once", "reward_function_a", "reward_function_b"}

\* The dataclass-generated __init__: a keyword in `given` takes the value
\* passed in kw, any other optional field takes its default.
DataclassInit(given, kw) ==
    [entity_a |-> kw.entity_a,
     entity_b |-> kw.entity_b,
     type |-> IF "type" \in given THEN kw.type ELSE RewardDefaults.type,
     distance_metric |-> IF "distance_metric" \in given THEN kw.distance_metric
                         ELSE RewardDefaults.distance_metric,
     scalar |-> IF "scalar" \in given THEN kw.scalar ELSE RewardDefaults.scalar,
     threshold |-> IF "threshold" \in given THEN kw.threshold
                   ELSE RewardDefaults.threshold,
     is_terminal |-> IF "is_terminal" \in given THEN kw.is_terminal
                     ELSE RewardDefaults.is_terminal,
     is_collectable |-> IF "is_collectable" \in given THEN kw.is_collectable
                        ELSE RewardDefaults.is_collectable,
     trigger_once |-> IF "trigger_once" \in given THEN kw.trigger_once
                      ELSE RewardDefaults.trigger_once,
     reward_function_a |-> IF "reward_function_a" \in given THEN kw.reward_function_a
                           ELSE RewardDefaults.reward_function_a,
     reward_function_b |-> IF "reward_function_b" \in given THEN kw.reward_function_b
                           ELSE RewardDefaults.reward_function_b]

\* Faulty variant of PostInit: the distance_metric check is missing.
PostInitNoMetricCheck(self) ==
    LET t == IF self.type = None THEN "dense" ELSE self.type
        m == IF self.distance_metric = None THEN "euclidean" ELSE self.distance_metric
    IN  IF t \notin ALLOWED_REWARD_TYPES
        THEN [raised |-> "ValueError", self |-> [self EXCEPT !.type = t]]
        ELSE [raised |-> "none", self |-> [self EXCEPT !.type = t, !.distance_metric = m]]

\* RewardFunction.__post_init__: the exception raised ("none": it returned)
\* and the object as the method leaves it.
PostInit(self) ==
    LET t == IF self.type = None THEN "dense" ELSE self.type
        m == IF self.distance_metric = None THEN "euclidean" ELSE self.distance_metric
    IN  IF t \notin ALLOWED_REWARD_TYPES
        THEN [raised |-> "ValueError", self |-> [self EXCEPT !.type = t]]
        ELSE IF m \notin ALLOWED_REWARD_DISTANCE_METRICS
        THEN [raised |-> "ValueError",
              self |-> [self EXCEPT !.type = t, !.distance_metric = m]]
        ELSE [raised |-> "none", self |-> [self EXCEPT !.type = t, !.distance_metric = m]]

\* RewardFunction(**kw): the generated __init__ followed by __post_init__.
NewRewardFunction(given, kw) == PostInit(DataclassInit(given, kw))

(***************************************************************************)
(* Inputs of the constructor in the reward component.                      *)
(***************************************************************************)
TypeArgs == ALLOWED_REWARD_TYPES \cup {None, "bogus"}
MetricArgs == ALLOWED_REWARD_DISTANCE_METRICS \cup {None, "manhattan"}

\* Keyword values for the remaining fields; which of them are passed is
\* chosen separately.
BaseKw ==
    [entity_a |-> Node("a", 0), entity_b |-> Node("b", 0), type |-> None,
     distance_metric |-> None, scalar |-> 2, threshold |-> 2, is_terminal |-> TRUE,
     is_collectable |-> TRUE, trigger_once |-> FALSE,
     reward_function_a |-> 0, reward_function_b |-> 0]

FlagChoices ==
    {{}, {"trigger_once"},
     {"scalar", "threshold", "is_terminal", "is_collectable", "trigger_once"}}

TriggerArgs == {TRUE, FALSE}

\* A keyword is either left out (FALSE, with the value of BaseKw standing in)
\* or passed (TRUE) with a value.
TypeChoices == {<<FALSE, BaseKw.type>>} \cup {<<TRUE, t>> : t \in TypeArgs}
MetricChoices == {<<FALSE, BaseKw.distance_metric>>} \cup {<<TRUE, m>> : m \in MetricArgs}
FlagArgs ==
    {<<f, BaseKw.trigger_once>> : f \in FlagChoices}
    \cup {<<{"trigger_once"}, v>> : v \in TriggerArgs}

(***************************************************************************)
(* Evaluation of one reward node per simulation step.  The evaluation      *)
(* engine is not part of the Python sources; it is modelled from section   *)
(* 4.4 of the specification.                                               *)
(***************************************************************************)
EvaluatedTypes == {"sparse", "see", "timeout"}

\* The state of a node at the start of an episode: armed, nothing fired.
FreshEpisode(op, before) ==
    [op |-> op, elapsed |-> 0, armed |-> TRUE, consumed |-> FALSE, fires |-> 0,
     triggered |-> FALSE, reward |-> 0, terminal |-> FALSE, firedBefore |-> before]

\* The trigger condition of a leaf node at distance d, with line of sight
\* `visible`, at elapsed time t.
Triggered(r, d, visible, t) ==
    CASE r.type = "sparse" -> d <= r.threshold
      [] r.type = "see" -> visible /\ d <= r.threshold
      [] r.type = "timeout" -> t >= r.threshold
      [] OTHER -> FALSE

\* One evaluation step of node r in episode state ep.
EvaluateStep(r, ep, d, visible) ==
    LET t == ep.elapsed + 1
        live == (~r.trigger_once \/ ep.armed) /\ ~ep.consumed
        fire == live /\ Triggered(r, d, visible, t)
    IN  [op |-> "step",
         elapsed |-> t,
         armed |-> ep.armed /\ ~(fire /\ r.trigger_once),
         consumed |-> ep.consumed \/ (fire /\ r.is_collectable),
         fires |-> IF fire THEN ep.fires + 1 ELSE ep.fires,
         triggered |-> Triggered(r, d, visible, t),
         reward |-> IF fire THEN r.scalar ELSE 0,
         terminal |-> ep.terminal \/ (fire /\ r.is_terminal),
         firedBefore |-> ep.firedBefore]

\* The episode reset: the node is armed again.
ResetEpisode(ep) == FreshEpisode("reset", ep.firedBefore \/ ep.fires > 0)

(***************************************************************************)
(* Actions of the reward component.                                        *)
(***************************************************************************)
\* r = RewardFunction(entity_a, entity_b, **kw).  When the constructor
\* raises, the caller keeps the object it had.
Construct ==
    \E tyArg \in TypeChoices, dmArg \in MetricChoices, flArg \in FlagArgs :
        LET given == flArg[1] \cup (IF tyArg[1] THEN {"type"} ELSE {})
                              \cup (IF dmArg[1] THEN {"distance_metric"} ELSE {})
            kw == [BaseKw EXCEPT !.type = tyArg[2], !.distance_metric = dmArg[2],
                                 !.trigger_once = flArg[2]]
            res == NewRewardFunction(given, kw)
        IN  /\ rfCall' = [given |-> given, kw |-> kw, raised |-> res.raised]
            /\ IF res.raised = "none"
               THEN /\ rf' = res.self
                    /\ episode' = FreshEpisode("new", FALSE)
               ELSE UNCHANGED <<rf, episode>>
            /\ UNCHANGED <<copyVars, sensorVars, assetVars>>

\* One simulation step: the engine reports the distance and the line of
\* sight, the node is evaluated.
Step ==
    /\ rf.type \in EvaluatedTypes
    /\ episode.elapsed < MaxSteps
    /\ \E d \in 0..MaxDist, visible \in BOOLEAN :
           episode' = EvaluateStep(rf, episode, d, visible)
    /\ UNCHANGED <<rf, rfCall>>
    /\ UNCHANGED <<copyVars, sensorVars, assetVars>>

\* The episode ends and the next one starts.
Reset ==
    /\ rf.type \in EvaluatedTypes
    /\ episode.op = "step"
    /\ episode' = ResetEpisode(episode)
    /\ UNCHANGED <<rf, rfCall>>
    /\ UNCHANGED <<copyVars, sensorVars, assetVars>>

(***************************************************************************)
(* Copying a reward function to a cloned scene.  Cloning and name lookup   *)
(* belong to the scene-graph classes, which are not among the sources;     *)
(* they are modelled from sections 4.2 and 9 of the specification: a clone *)
(* of the scene holds one clone of every node, the last-copy name of a     *)
(* node is the name of its most recent clone, and get_node finds a node of *)
(* the tree by name or returns None.                                       *)
(***************************************************************************)
\* The nodes of the tree whose root is agent.tree_root, for the agent of
\* clone k.
TreeOf(k) == {Node(n, k) : n \in NodeNames}

\* node._get_last_copy_name() when the scene has been cloned n times.  Names
\* are unique in a tree, so a name is modelled by the node it names.
GetLastCopyName(node, n) == Node(node.name, n)

\* root.get_node(name) on the tree of clone k.
GetNode(k, name) == IF name \in TreeOf(k) THEN name ELSE NoNode

\* Faulty variant of PostCopy: the new instance gets the original's entities.
PostCopyKeepsEntities(h, i, k, n) ==
    LET self == h[i]
        res == NewRewardFunction(OptionalFields, self)
    IN  [heap |-> h, raised |-> res.raised, inst |-> res.self]

\* RewardFunction._post_copy(agent) on object i of the objects h, the agent
\* being that of clone k, after n clones: the objects afterwards, the
\* exception raised and the instance returned.
PostCopy(h, i, k, n) ==
    LET self == h[i]
        res == NewRewardFunction(OptionalFields,
                   [type |-> self.type,
                    entity_a |-> GetNode(k, GetLastCopyName(self.entity_a, n)),
                    entity_b |-> GetNode(k, GetLastCopyName(self.entity_b, n)),
                    distance_metric |-> self.distance_metric,
                    scalar |-> self.scalar,
                    threshold |-> self.threshold,
                    is_terminal |-> self.is_terminal,
                    is_collectable |-> self.is_collectable,
                    trigger_once |-> self.trigger_once,
                    reward_function_a |-> self.reward_function_a,
                    reward_function_b |-> self.reward_function_b])
    IN  [heap |-> h, raised |-> res.raised, inst |-> res.self]

\* The objects of the reward tree rooted at object i (0: None).
RECURSIVE SubTree(_, _)
SubTree(h, i) ==
    IF i = 0 THEN {}
    ELSE {i} \cup SubTree(h, h[i].reward_function_a)
             \cup SubTree(h, h[i].reward_function_b)

(***************************************************************************)
(* Actions of the copy scenario.                                           *)
(***************************************************************************)
CopyTypes == {"sparse", "and"}
EntityPairs == {<<Node("a", 0), Node("b", 0)>>, <<Node("b", 0), Node("a", 0)>>}
CopyFlags == {{}, {"scalar", "threshold", "is_terminal", "is_collectable", "trigger_once"}}

\* The child reward functions a call may pass: none for a leaf type; for a
\* combinator none, one (reward_function_a) or two, objects constructed before.
ChildArgs(ty) ==
    IF ty \notin {"and", "or", "not"} THEN {<<0, 0>>}
    ELSE {<<0, 0>>} \cup {<<ra, rb>> : ra \in 1..Len(heap), rb \in 0..Len(heap)}

\* A RewardFunction over nodes of the original scene is constructed.
AddReward ==
    /\ Len(heap) < MaxRewards
    /\ \E ty \in CopyTypes, ents \in EntityPairs, flags \in CopyFlags :
         \E kids \in ChildArgs(ty) :
           LET given == flags \cup {"type", "reward_function_a", "reward_function_b"}
               kw == [BaseKw EXCEPT !.entity_a = ents[1], !.entity_b = ents[2],
                                    !.type = ty, !.reward_function_a = kids[1],
                                    !.reward_function_b = kids[2]]
               res == NewRewardFunction(given, kw)
           IN  /\ res.raised = "none"
               /\ heap' = Append(heap, res.self)
    /\ UNCHANGED <<nCopies, copied>>
    /\ UNCHANGED <<rewardVars, sensorVars, assetVars>>

\* The scene is cloned once more.
CloneScene ==
    /\ nCopies < MaxCopies
    /\ nCopies' = nCopies + 1
    /\ UNCHANGED <<heap, copied>>
    /\ UNCHANGED <<rewardVars, sensorVars, assetVars>>

\* new = heap[i]._post_copy(agent) with the agent of an existing clone.
PostCopyCall ==
    /\ \E i \in 1..Len(heap), k \in 1..nCopies :
           LET res == PostCopy(heap, i, k, nCopies)
           IN  /\ heap' = res.heap
               /\ copied' = [self |-> i, agent |-> k, copies |-> nCopies,
                             before |-> heap[i], raised |-> res.raised,
                             inst |-> res.inst]
    /\ UNCHANGED nCopies
    /\ UNCHANGED <<rewardVars, sensorVars, assetVars>>

(***************************************************************************)
(* StateSensor.  The value of `properties` is modelled by its Python kind  *)
(* ("none", "list", "tuple", or "str" for a bare name that is no list) and *)
(* the names it holds; a bare name holds itself.  The initialisation of    *)
(* the Asset base class, which comes first in __post_init__, is that of    *)
(* another package version and takes no part in the handling of            *)
(* `properties`.                                                           *)
(***************************************************************************)
ALLOWED_STATE_SENSOR_PROPERTIES ==
    ("position" :> 3) @@ ("position.x" :> 1) @@ ("position.y" :> 1)
    @@ ("position.z" :> 1) @@ ("velocity" :> 3) @@ ("velocity.x" :> 1)
    @@ ("velocity.y" :> 1) @@ ("velocity.z" :> 1) @@ ("rotation" :> 3)
    @@ ("rotation.x" :> 1) @@ ("rotation.y" :> 1) @@ ("rotation.z" :> 1)
    @@ ("angular_velocity" :> 3) @@ ("angular_velocity.x" :> 1)
    @@ ("angular_velocity.y" :> 1) @@ ("angular_velocity.z" :> 1)
    @@ ("distance" :> 1)

PyList(names) == [kind |-> "list", names |-> names]
PyTuple(names) == [kind |-> "tuple", names |-> names]
PyStr(name) == [kind |-> "str", names |-> <<name>>]
PyNone == [kind |-> "none", names |-> <<>>]

\* The part of StateSensor.__post_init__ that follows the base class
\* initialisation: the exception raised and self.properties afterwards.
StateSensorPostInit(properties) ==
    LET p1 == IF properties.kind = "none" THEN PyList(<<"distance">>) ELSE properties
    IN  IF p1.kind \notin {"list", "tuple"}
        THEN [raised |-> "none", properties |-> PyList(p1.names)]
        ELSE IF \E i \in DOMAIN p1.names :
                    p1.names[i] \notin DOMAIN ALLOWED_STATE_SENSOR_PROPERTIES
        THEN [raised |-> "ValueError", properties |-> p1]
        ELSE [raised |-> "none", properties |-> p1]

\* get_state_sensor_n_properties(sensor): the loop over sensor.properties,
\* from position i on with n_features features counted so far.  The dictionary
\* lookup raises KeyError on a name that is no key.
RECURSIVE CountFeatures(_, _, _)
CountFeatures(names, i, n_features) ==
    IF i > Len(names) THEN [raised |-> "none", n |-> n_features]
    ELSE IF names[i] \notin DOMAIN ALLOWED_STATE_SENSOR_PROPERTIES
    THEN [raised |-> "KeyError", n |-> n_features]
    ELSE CountFeatures(names, i + 1,
                       n_features + ALLOWED_STATE_SENSOR_PROPERTIES[names[i]])

get_state_sensor_n_properties(properties) == CountFeatures(properties.names, 1, 0)

\* StateSensor.observation_space: the exception raised and the shape of the
\* Box returned.
ObservationSpace(properties) ==
    LET r == get_state_sensor_n_properties(properties)
    IN  IF r.raised = "none"
        THEN [read |-> TRUE, raised |-> "none", shape |-> <<r.n>>]
        ELSE [read |-> TRUE, raised |-> r.raised, shape |-> <<>>]

NotRead == [read |-> FALSE, raised |-> "none", shape |-> <<>>]

(***************************************************************************)
(* Actions of the sensor component.                                        *)
(***************************************************************************)
\* Names given as properties: a vector property, a component, the distance,
\* and a name that is no key of ALLOWED_STATE_SENSOR_PROPERTIES.
PropertyArgs == {"position", "rotation.y", "distance", "bogus"}

NameLists == UNION {[1..n -> PropertyArgs] : n \in 0..MaxProps}

PropertiesArgs ==
    {PyNone} \cup {PyList(l) : l \in NameLists} \cup {PyTuple(l) : l \in NameLists}
    \cup {PyStr(x) : x \in PropertyArgs}

\* s = StateSensor(properties=arg).  When the constructor raises, the caller
\* keeps the sensor it had.
NewStateSensor ==
    /\ \E arg \in PropertiesArgs :
           LET res == StateSensorPostInit(arg)
           IN  /\ sensorCall' = [properties |-> arg, raised |-> res.raised]
               /\ IF res.raised = "none"
                  THEN /\ sensor' = [properties |-> res.properties]
                       /\ obs' = NotRead
                  ELSE UNCHANGED <<sensor, obs>>
    /\ UNCHANGED <<rewardVars, copyVars, assetVars>>

\* s.observation_space is read.
ReadObservationSpace ==
    /\ obs' = ObservationSpace(sensor.properties)
    /\ UNCHANGED <<sensor, sensorCall>>
    /\ UNCHANGED <<rewardVars, copyVars, assetVars>>

(***************************************************************************)
(* Asset.  A Python number is N(s); a Python list standing where a number  *)
(* is expected is L(items), so that a stored component can be told from    *)
(* the list that holds it.  A transform argument is NoneArg or Vec(items), *)
(* a sequence of numbers.  A stored transform is the sequence of its       *)
(* components; Unset (no such attribute yet) is the empty sequence, which  *)
(* no setter stores.                                                       *)
(***************************************************************************)
N(s) == [list |-> FALSE, num |-> s, items |-> <<>>]
L(xs) == [list |-> TRUE, num |-> 0, items |-> xs]
NoneArg == [none |-> TRUE, items |-> <<>>]
Vec(xs) == [none |-> FALSE, items |-> xs]
Unset == <<>>

\* sin and cos of k quarter turns (k * pi / 2).
SinQuarter(k) == CASE k % 4 = 0 -> 0 [] k % 4 = 1 -> 1 [] k % 4 = 2 -> 0 [] OTHER -> -1
CosQuarter(k) == CASE k % 4 = 0 -> 1 [] k % 4 = 1 -> 0 [] k % 4 = 2 -> -1 [] OTHER -> 0

\* quat_from_euler(x, y, z) for angles that are whole multiples of pi, each
\* given as its number of half turns, so that sin(x / 2) and cos(x / 2) are
\* the sine and cosine of x quarter turns, in exact arithmetic.
quat_from_euler(x, y, z) ==
    LET qx == SinQuarter(x) * CosQuarter(y) * CosQuarter(z)
              - CosQuarter(x) * SinQuarter(y) * SinQuarter(z)
        qy == CosQuarter(x) * SinQuarter(y) * CosQuarter(z)
              + SinQuarter(x) * CosQuarter(y) * SinQuarter(z)
        qz == CosQuarter(x) * CosQuarter(y) * SinQuarter(z)
              - SinQuarter(x) * SinQuarter(y) * CosQuarter(z)
        qw == CosQuarter(x) * CosQuarter(y) * CosQuarter(z)
              + SinQuarter(x) * SinQuarter(y) * SinQuarter(z)
    IN  <<N(qx), N(qy), N(qz), N(qw)>>

\* The translation setter on an asset of the given dimensionality: the
\* exception raised and the value stored (meaningful when none is raised).
TranslationSetter(dimensionality, value) ==
    IF dimensionality = 3
    THEN IF value.none
         THEN [raised |-> "none", stored |-> <<N(0), N(0), N(0)>>]
         ELSE IF Len(value.items) # 3
         THEN [raised |-> "ValueError", stored |-> Unset]
         ELSE [raised |-> "none", stored |-> value.items]
    ELSE [raised |-> "NotImplementedError", stored |-> Unset]

\* Faulty variant of RotationSetter: the length is not checked.
RotationSetterAnyLength(dimensionality, value) ==
    IF dimensionality = 3
    THEN IF value.none
         THEN [raised |-> "none", stored |-> <<N(0), N(0), N(0), N(0)>>]
         ELSE IF Len(value.items) = 3
         THEN [raised |-> "none",
               stored |-> quat_from_euler(value.items[1].num, value.items[2].num,
                                          value.items[3].num)]
         ELSE [raised |-> "none", stored |-> value.items]
    ELSE [raised |-> "NotImplementedError", stored |-> Unset]

\* The rotation setter.
RotationSetter(dimensionality, value) ==
    IF dimensionality = 3
    THEN IF value.none
         THEN [raised |-> "none", stored |-> <<N(0), N(0), N(0), N(0)>>]
         ELSE IF Len(value.items) = 3
         THEN [raised |-> "none",
               stored |-> quat_from_euler(value.items[1].num, value.items[2].num,
                                          value.items[3].num)]
         ELSE IF Len(value.items) # 4
         THEN [raised |-> "ValueError", stored |-> Unset]
         ELSE [raised |-> "none", stored |-> value.items]
    ELSE [raised |-> "NotImplementedError", stored |-> Unset]

\* The scale setter.  A 1-length value becomes [value, value, value]: three
\* references to the list given.
ScaleSetter(dimensionality, value) ==
    IF dimensionality = 3
    THEN IF value.none
         THEN [raised |-> "none", stored |-> <<N(1), N(1), N(1)>>]
         ELSE IF Len(value.items) = 1
         THEN [raised |-> "none",
               stored |-> <<L(value.items), L(value.items), L(value.items)>>]
         ELSE IF Len(value.items) # 3
         THEN [raised |-> "ValueError", stored |-> Unset]
         ELSE [raised |-> "none", stored |-> value.items]
    ELSE [raised |-> "NotImplementedError", stored |-> Unset]

(***************************************************************************)
(* The scene graph.  NodeMixin (the parent and children attributes) is not *)
(* among the sources; it is modelled from section 3 of the specification:  *)
(* a node has one parent, assigning a parent moves the node to the end of  *)
(* the new parent's children, assigning children makes each of them, in    *)
(* order, a child of the node.                                             *)
(***************************************************************************)
Without(seq, x) == SelectSeq(seq, LAMBDA y : y # x)

\* node.parent = p on the scene sc (p = 0: None).
SetParent(sc, node, p) ==
    LET old == sc.parent[node]
        c1 == IF old = 0 THEN sc.children
              ELSE [sc.children EXCEPT ![old] = Without(@, node)]
        c2 == IF p = 0 THEN c1 ELSE [c1 EXCEPT ![p] = Append(@, node)]
    IN  [sc EXCEPT !.parent = [sc.parent EXCEPT ![node] = p], !.children = c2]

\* node.children = cs on the scene sc, for a node that has no children yet.
RECURSIVE SetChildren(_, _, _)
SetChildren(sc, node, cs) ==
    IF cs = <<>> THEN sc
    ELSE SetChildren(SetParent(sc, Head(cs), node), node, Tail(cs))

\* The node p and its ancestors (none for p = 0).
RECURSIVE PathToRoot(_, _)
PathToRoot(sc, p) == IF p = 0 THEN {} ELSE {p} \cup PathToRoot(sc, sc.parent[p])

\* Asset.__init__(translation, rotation, scale, parent, children) of a class
\* of the given dimensionality, on the scene sc: the exception raised and the
\* scene afterwards.  The lines run in order: parent, children, translation,
\* rotation, scale; an exception ends the call and leaves what the earlier
\* lines did.  An object whose constructor raised and that is neither child
\* nor parent of any node is unreachable and is dropped.
AssetInit(sc, dimensionality, translation, rotation, scale, p, cs) ==
    LET node == Len(sc.attrs) + 1
        sc0 == [attrs |-> Append(sc.attrs,
                              [dimensionality |-> dimensionality, translation |-> Unset,
                               rotation |-> Unset, scale |-> Unset]),
                parent |-> Append(sc.parent, 0),
                children |-> Append(sc.children, <<>>)]
        sc1 == SetParent(sc0, node, p)
        sc2 == IF cs # <<>> THEN SetChildren(sc1, node, cs) ELSE sc1
        t == TranslationSetter(dimensionality, translation)
        sc3 == [sc2 EXCEPT !.attrs[node].translation = t.stored]
        r == RotationSetter(dimensionality, rotation)
        sc4 == [sc3 EXCEPT !.attrs[node].rotation = r.stored]
        s == ScaleSetter(dimensionality, scale)
        sc5 == [sc4 EXCEPT !.attrs[node].scale = s.stored]
        Kept(scX) == IF p = 0 /\ cs = <<>> THEN sc ELSE scX
    IN  IF t.raised # "none" THEN [raised |-> t.raised, scene |-> Kept(sc2)]
        ELSE IF r.raised # "none" THEN [raised |-> r.raised, scene |-> Kept(sc3)]
        ELSE IF s.raised # "none" THEN [raised |-> s.raised, scene |-> Kept(sc4)]
        ELSE [raised |-> "none", scene |-> sc5]

Scene == [attrs |-> attrs, parent |-> parent, children |-> children]
EmptyScene == [attrs |-> <<>>, parent |-> <<>>, children |-> <<>>]

(***************************************************************************)
(* Inputs of the asset component.                                          *)
(***************************************************************************)
Vals == 0..MaxVal

\* The sequences of a given length: the constant ones and <<1, 2, ..., n>>.
Seqs(n) == {[i \in 1..n |-> N(v)] : v \in Vals} \cup {[i \in 1..n |-> N(i)]}

\* Transform arguments.  The components of a 3-length rotation are Euler
\* angles and count half turns; all other components are plain numbers.
TransformArgs == {NoneArg} \cup {Vec(x) : x \in UNION {Seqs(n) : n \in 0..MaxLen}}

\* The arguments a constructor call draws from, per parameter: None, accepted
\* lengths, and a refused length.
Ramp(n) == Vec([i \in 1..n |-> N(i)])
Zeros(n) == Vec([i \in 1..n |-> N(0)])
InitTranslationArgs == {NoneArg, Ramp(3), Ramp(2)}
InitRotationArgs == {NoneArg, Zeros(3), Ramp(4), Ramp(2)}
InitScaleArgs == {NoneArg, Zeros(1), Ramp(1), Ramp(3), Ramp(2)}

Dimensionalities == {2, 3}

(***************************************************************************)
(* Actions of the asset component: one asset, node 1, under test.          *)
(***************************************************************************)
\* a = Asset(translation=t, rotation=r, scale=s), without parent or children:
\* a new three-dimensional asset in a scene of its own.
\* When the constructor raises, the caller keeps the asset it had.
ReplaceAsset ==
    /\ \E t \in InitTranslationArgs, r \in InitRotationArgs, s \in InitScaleArgs :
           LET res == AssetInit(EmptyScene, 3, t, r, s, 0, <<>>)
           IN  /\ assetCall' = [op |-> "init", dimensionality |-> 3, translation |-> t,
                                rotation |-> r, scale |-> s, parent |-> 0,
                                children |-> <<>>, raised |-> res.raised]
               /\ IF res.raised = "none"
                  THEN /\ attrs' = res.scene.attrs
                       /\ parent' = res.scene.parent
                       /\ children' = res.scene.children
                  ELSE UNCHANGED <<attrs, parent, children>>
    /\ UNCHANGED <<rewardVars, copyVars, sensorVars>>

SetterCall(op, value, res) ==
    [op |-> op, dimensionality |-> attrs[1].dimensionality,
     translation |-> IF op = "translation" THEN value ELSE NoneArg,
     rotation |-> IF op = "rotation" THEN value ELSE NoneArg,
     scale |-> IF op = "scale" THEN value ELSE NoneArg,
     parent |-> 0, children |-> <<>>, raised |-> res.raised]

\* a.translation = value
SetTranslation ==
    /\ \E value \in TransformArgs :
           LET res == TranslationSetter(attrs[1].dimensionality, value)
           IN  /\ assetCall' = SetterCall("translation", value, res)
               /\ attrs' = IF res.raised = "none"
                           THEN [attrs EXCEPT ![1].translation = res.stored]
                           ELSE attrs
    /\ UNCHANGED <<parent, children>>
    /\ UNCHANGED <<rewardVars, copyVars, sensorVars>>

\* a.rotation = value
SetRotation ==
    /\ \E value \in TransformArgs :
           LET res == RotationSetter(attrs[1].dimensionality, value)
           IN  /\ assetCall' = SetterCall("rotation", value, res)
               /\ attrs' = IF res.raised = "none"
                           THEN [attrs EXCEPT ![1].rotation = res.stored]
                           ELSE attrs
    /\ UNCHANGED <<parent, children>>
    /\ UNCHANGED <<rewardVars, copyVars, sensorVars>>

\* a.scale = value
SetScale ==
    /\ \E value \in TransformArgs :
           LET res == ScaleSetter(attrs[1].dimensionality, value)
           IN  /\ assetCall' = SetterCall("scale", value, res)
               /\ attrs' = IF res.raised = "none"
                           THEN [attrs EXCEPT ![1].scale = res.stored]
                           ELSE attrs
    /\ UNCHANGED <<parent, children>>
    /\ UNCHANGED <<rewardVars, copyVars, sensorVars>>

(***************************************************************************)
(* Action of the scene-graph component: assets are added to the tree.      *)
(***************************************************************************)
\* The assets whose constructor returned: the ones a caller holds.
Built == {n \in 1..Len(attrs) : attrs[n].translation # Unset /\ attrs[n].scale # Unset}

\* The children lists a call may pass for parent p: distinct built assets,
\* none of them p or an ancestor of p (NodeMixin refuses those).
ChildLists(p) ==
    LET ok == Built \ PathToRoot(Scene, p)
    IN  {cs \in UNION {[1..n -> ok] : n \in 0..MaxKids} :
            \A i, j \in DOMAIN cs : i # j => cs[i] # cs[j]}

\* The transform arguments of a call: left out, or of a refused length.
TreeArgs == {NoneArg, Vec(<<N(1), N(2)>>)}

\* Asset(translation=t, rotation=r, scale=s, parent=p, children=cs)
NewAsset ==
    /\ Len(attrs) < MaxNodes
    /\ \E dim \in Dimensionalities, t \in TreeArgs, r \in TreeArgs, s \in TreeArgs,
          p \in Built \cup {0} :
         \E cs \in ChildLists(p) :
           LET res == AssetInit(Scene, dim, t, r, s, p, cs)
           IN  /\ assetCall' = [op |-> "init", dimensionality |-> dim, translation |-> t,
                                rotation |-> r, scale |-> s, parent |-> p,
                                children |-> cs, raised |-> res.raised]
               /\ attrs' = res.scene.attrs
               /\ parent' = res.scene.parent
               /\ children' = res.scene.children
    /\ UNCHANGED <<rewardVars, copyVars, sensorVars>>

(***************************************************************************)
(* Initial state: RewardFunction(a, b) with every optional field left to   *)
(* its default; no object in the copy scenario yet.                        *)
(***************************************************************************)
InitRewardKw == BaseKw

InitReward ==
    /\ rf = NewRewardFunction({}, InitRewardKw).self
    /\ rfCall = [given |-> {}, kw |-> InitRewardKw,
                 raised |-> NewRewardFunction({}, InitRewardKw).raised]
    /\ episode = FreshEpisode("new", FALSE)

InitCopy ==
    /\ heap = <<>>
    /\ nCopies = 0
    /\ copied = [self |-> 0, agent |-> 0, copies |-> 0,
                 before |-> NewRewardFunction({}, InitRewardKw).self,
                 raised |-> "none", inst |-> NewRewardFunction({}, InitRewardKw).self]

\* StateSensor() with properties left to its default.
InitSensor ==
    /\ sensor = [properties |-> StateSensorPostInit(PyNone).properties]
    /\ sensorCall = [properties |-> PyNone, raised |-> StateSensorPostInit(PyNone).raised]
    /\ obs = NotRead

\* One asset, Asset(), the root of the scene graph.
InitScene ==
    AssetInit(EmptyScene, 3, NoneArg, NoneArg, NoneArg, 0, <<>>)

InitAsset ==
    /\ attrs = InitScene.scene.attrs
    /\ parent = InitScene.scene.parent
    /\ children = InitScene.scene.children
    /\ assetCall = [op |-> "init", dimensionality |-> 3, translation |-> NoneArg,
                    rotation |-> NoneArg, scale |-> NoneArg, parent |-> 0,
                    children |-> <<>>, raised |-> InitScene.raised]

Init == InitReward /\ InitCopy /\ InitSensor /\ InitAsset

NextReward == Construct \/ Step \/ Reset

SpecReward == Init /\ [][NextReward]_vars

NextCopy == AddReward \/ CloneScene \/ PostCopyCall

SpecCopy == Init /\ [][NextCopy]_vars

NextSensor == NewStateSensor \/ ReadObservationSpace

SpecSensor == Init /\ [][NextSensor]_vars

NextAsset == ReplaceAsset \/ SetTranslation \/ SetRotation \/ SetScale

SpecAsset == Init /\ [][NextAsset]_vars

NextTree == NewAsset

SpecTree == Init /\ [][NextTree]_vars

\* The whole program: the components side by side.
Next == NextReward \/ NextCopy \/ NextSensor \/ NextAsset \/ NextTree

Spec == Init /\ [][Next]_vars

(***************************************************************************)
(* Properties of the reward component.                                     *)
(***************************************************************************)
\* The type and distance_metric arguments of the last constructor call;
\* a keyword left out arrives as None.
CallType == IF "type" \in rfCall.given THEN rfCall.kw.type ELSE None
CallMetric ==
    IF "distance_metric" \in rfCall.given THEN rfCall.kw.distance_metric ELSE None

AskedTriggerOnce ==
    /\ rfCall.raised = "none"
    /\ "trigger_once" \in rfCall.given => rfCall.kw.trigger_once

ResolvedClone(node, k, n) == IF k = n THEN Node(node.name, n) ELSE NoNode

\* C8: _post_copy(agent) returns a new RewardFunction whose entities are the
\* nodes agent.tree_root resolves for the last-copy names of the original's
\* entities (clones, not originals), whose other fields equal the original's,
\* and leaves every field of the original unchanged.
C8_PostCopyResolvesClones ==
    copied.self # 0 =>
        LET o == copied.before
            new == copied.inst
        IN  /\ copied.raised = "none"
            /\ new.entity_a = ResolvedClone(o.entity_a, copied.agent, copied.copies)
            /\ new.entity_b = ResolvedClone(o.entity_b, copied.agent, copied.copies)
            /\ new.entity_a \notin Originals /\ new.entity_b \notin Originals
            /\ new.type = o.type
            /\ new.distance_metric = o.distance_metric
            /\ new.scalar = o.scalar
            /\ new.threshold = o.threshold
            /\ new.is_terminal = o.is_terminal
            /\ new.is_collectable = o.is_collectable
            /\ new.trigger_once = o.trigger_once
            /\ heap[copied.self] = o

\* C8 witness: a reward with non-default fields was copied for the agent of
\* the latest of two clones, and its entities are that clone's nodes.
C8_Witness ==
    /\ copied.self # 0
    /\ copied.agent = 2
    /\ copied.copies = 2
    /\ copied.inst.entity_a = Node("b", 2)
    /\ copied.inst.entity_b = Node("a", 2)
    /\ copied.inst.scalar = 2
    /\ ~copied.inst.trigger_once

\* The entities referenced anywhere in the reward trees rooted at the objects
\* ids of h.
TreeEntities(h, ids) ==
    UNION {{h[j].entity_a, h[j].entity_b} :
               j \in UNION {SubTree(h, i) : i \in ids}}

\* C9: after _post_copy(agent) on a combinator reward with child reward
\* functions, every entity referenced in the returned reward tree, children
\* included, is a node of agent.tree_root's tree, and no RewardFunction object
\* is shared between the returned tree and the original tree.
C9_CopiedTreeIsLocal ==
    (/\ copied.self # 0
     /\ copied.agent = copied.copies
     /\ copied.inst.type \in {"and", "or", "not"}
     /\ {copied.inst.reward_function_a, copied.inst.reward_function_b} # {0})
    =>
        LET kids == {copied.inst.reward_function_a, copied.inst.reward_function_b}
        IN  /\ {copied.inst.entity_a, copied.inst.entity_b} \subseteq TreeOf(copied.agent)
            /\ TreeEntities(heap, kids) \subseteq TreeOf(copied.agent)
            /\ UNION {SubTree(heap, i) : i \in kids}
                   \cap SubTree(heap, copied.self) = {}

(***************************************************************************)
(* Properties of the sensor component.                                     *)
(***************************************************************************)
Recognized(names) ==
    \A i \in DOMAIN names : names[i] \in DOMAIN ALLOWED_STATE_SENSOR_PROPERTIES

\* C2: every StateSensor that construction returns has only recognized
\* property names: in whatever form the properties are supplied (None, a list
\* or tuple of names, a bare name), a supplied name that is no key of
\* ALLOWED_STATE_SENSOR_PROPERTIES makes construction raise ValueError.
C2_OnlyRecognizedProperties ==
    /\ Recognized(sensor.properties.names)
    /\ ~Recognized(sensorCall.properties.names) => sensorCall.raised = "ValueError"

\* The feature count the specification gives a property.
FeatureCount(name) ==
    IF name \in {"position", "velocity", "rotation", "angular_velocity"} THEN 3 ELSE 1

RECURSIVE FeatureSum(_)
FeatureSum(names) ==
    IF names = <<>> THEN 0 ELSE FeatureCount(Head(names)) + FeatureSum(Tail(names))

\* C3: for every successfully constructed StateSensor, observation_space is
\* defined and its shape[0] is the sum, over the property list in declaration
\* order and counting repeats, of each property's feature count.
C3_ObservationShapeIsFeatureSum ==
    obs.read =>
        /\ obs.raised = "none"
        /\ obs.shape = <<FeatureSum(sensor.properties.names)>>

(***************************************************************************)
(* Properties of the asset component.                                      *)
(***************************************************************************)
\* C4: for every 1-length scale input [s], at construction or through the
\* scale setter, the stored scale is the 3-vector (s, s, s) whose components
\* are the scalar s itself.
C4_UniformScaleBroadcast ==
    (/\ assetCall.op \in {"init", "scale"}
     /\ assetCall.raised = "none"
     /\ ~assetCall.scale.none
     /\ Len(assetCall.scale.items) = 1)
    =>
        LET s == assetCall.scale.items[1]
        IN  attrs[1].scale = <<s, s, s>>

\* C5: an Asset constructed without a rotation stores the identity quaternion
\* (0, 0, 0, 1), the value stored when the Euler rotation (0, 0, 0) is given.
C5_DefaultRotationIsIdentity ==
    (/\ assetCall.op = "init"
     /\ assetCall.raised = "none"
     /\ assetCall.rotation.none)
    =>
        /\ attrs[1].rotation = <<N(0), N(0), N(0), N(1)>>
        /\ attrs[1].rotation = RotationSetter(3, Zeros(3)).stored

\* What a setter call on the three-dimensional asset under test must have
\* done in the step that made it.
C6_Step ==
    LET call == assetCall'
        old == attrs[1]
        new == attrs'[1]
        value == CASE call.op = "translation" -> call.translation
                   [] call.op = "rotation" -> call.rotation
                   [] OTHER -> call.scale
        accepted == CASE call.op = "translation" -> {3}
                      [] call.op = "rotation" -> {3, 4}
                      [] OTHER -> {1, 3}
        exact == CASE call.op = "translation" -> {3}
                   [] call.op = "rotation" -> {4}
                   [] OTHER -> {3}
        stored == CASE call.op = "translation" -> new.translation
                    [] call.op = "rotation" -> new.rotation
                    [] OTHER -> new.scale
    IN  (/\ call.op \in {"translation", "rotation", "scale"}
         /\ old.dimensionality = 3
         /\ ~value.none)
        =>
            /\ Len(value.items) \notin accepted =>
                   call.raised = "ValueError" /\ new = old
            /\ Len(value.items) \in accepted =>
                   /\ call.raised = "none"
                   /\ call.op # "translation" => new.translation = old.translation
                   /\ call.op # "rotation" => new.rotation = old.rotation
                   /\ call.op # "scale" => new.scale = old.scale
            /\ Len(value.items) \in exact => stored = value.items

\* C6: on a 3D Asset, assigning a translation whose length is not 3, a
\* rotation whose length is neither 3 nor 4 or a scale whose length is neither
\* 1 nor 3 raises ValueError and leaves the stored translation, rotation and
\* scale unchanged; an assignment of an accepted length succeeds, and a
\* 3-length translation, 3-length scale or 4-length rotation is stored
\* component for component as given.
C6_SettersValidateLength == [][C6_Step]_vars

\* C6 witness: a rotation of length 2 has just been refused on an asset that
\* keeps the quaternion (1, 2, 3, 4) stored, as given, by an earlier call.
C6_Witness ==
    /\ assetCall.op = "rotation"
    /\ assetCall.raised = "ValueError"
    /\ Len(assetCall.rotation.items) = 2
    /\ attrs[1].rotation = <<N(1), N(2), N(3), N(4)>>

(***************************************************************************)
(* Properties of the scene-graph component.                                *)
(***************************************************************************)
\* C10: Asset construction is all-or-nothing with respect to the scene graph:
\* when Asset(parent=p, children=cs, ...) fails validation, p's children and
\* the parents of the nodes in cs are what they were before the call, and no
\* partially initialised node is reachable from the tree.
C10_ConstructionAllOrNothing ==
    [][(assetCall'.op = "init" /\ assetCall'.raised # "none")
           => (parent' = parent /\ children' = children /\ attrs' = attrs)]_vars

====
